---- MODULE Spec2Model ----
(***************************************************************************)
(* Model of the notebook "Tme series analysis" (ddeMoivre/Time-Series-     *)
(* Analysis): the data pipeline (load, missing-value filter, weekly and    *)
(* monthly OHLC resampling, first differences), the AR(p) order grid       *)
(* searches with their report and fit cells, and the characteristic-       *)
(* polynomial / cycle-length cells.  Each notebook cell is one action and  *)
(* the cells run top to bottom.                                            *)
(*                                                                         *)
(* Numbers: yields are small integers; AR coefficients and polynomial      *)
(* coefficients are integers in units of 0.01 (so 1 is 100, -0.1 is -10).  *)
(* A table cell is a record [na, v]: na = TRUE is pandas' NaN.             *)
(***************************************************************************)
EXTENDS Integers, Sequences, FiniteSets, TLC

VARIABLES
    pc,                 \* the last notebook cell that has run
    fred_data,          \* the loaded table, rows in file order
    fred_data0,         \* rows with DGS10 present
    DGS10_daily,        \* the DGS10 column, indexed by date
    OHLC_weekly,        \* bars returned by resample_plot(DGS10_daily,'W')
    OHLC_monthly,       \* bars returned by resample_plot(DGS10_daily,'M')
    DGS10_weekly,       \* close column of OHLC_weekly
    DGS10_monthly,      \* close column of OHLC_monthly
    diff_DGS10_daily,   \* differenced series
    diff_DGS10_weekly,
    diff_DGS10_monthly,
    fit_aic,            \* per series and order: what AutoReg(...).fit().aic does
    param,              \* loop variable of the grid search
    AIC,                \* list AIC
    AR_model,           \* list AR_model
    reported,           \* what the report cells printed, per series
    model_order,        \* order handed to AutoReg in the "fit this model" cells
    params,             \* results.params of the fitted weekly model
    polyroots_arg,      \* coefficient tuple handed to polyroots
    roots,              \* what polyroots returned
    period              \* what the period cell printed

dataVars == <<fred_data, fred_data0, DGS10_daily, OHLC_weekly, OHLC_monthly,
              DGS10_weekly, DGS10_monthly, diff_DGS10_daily, diff_DGS10_weekly,
              diff_DGS10_monthly>>
arVars == <<fit_aic, param, AIC, AR_model, reported, model_order>>
polyVars == <<params, polyroots_arg, roots, period>>
vars == <<pc, dataVars, arVars, polyVars>>

----------------------------------------------------------------------------
(* Bounds of the model *)

\* first calendar day (ordinal in 2020) a row of the file may carry
StartDay == 31
\* number of consecutive calendar days the file may cover
NumDays == 4
\* yields are drawn from 1..MaxVal
MaxVal == 2

----------------------------------------------------------------------------
(* Table cells *)

NaN == [na |-> TRUE, v |-> 0]
Val(x) == [na |-> FALSE, v |-> x]

Days == StartDay .. (StartDay + NumDays - 1)
Yields == {Val(x) : x \in 1..MaxVal}

MinOf(S) == CHOOSE x \in S : \A y \in S : x <= y
MaxOf(S) == CHOOSE x \in S : \A y \in S : x >= y

RECURSIVE SortedSeq(_)
SortedSeq(S) == IF S = {} THEN <<>>
                ELSE LET m == MinOf(S) IN <<m>> \o SortedSeq(S \ {m})

----------------------------------------------------------------------------
(* read_csv: the file has one row per date, dates ascending; a day without *)
(* a row is absent from the file, a row may miss DGS10 or another column.  *)

DayOptions == {[present |-> FALSE, DGS10 |-> NaN, other |-> NaN]} \cup
              {[present |-> TRUE, DGS10 |-> c, other |-> o] :
                   c \in Yields \cup {NaN}, o \in {Val(1), NaN}}

ReadCsv(g) ==
    LET ds == SortedSeq({d \in Days : g[d].present})
    IN  [i \in 1..Len(ds) |->
            [DATE |-> ds[i], DGS10 |-> g[ds[i]].DGS10, other |-> g[ds[i]].other]]

----------------------------------------------------------------------------
(* fred_data[fred_data.isna()["DGS10"]==False] *)

\* variant: fred_data.dropna(), dropping on any column
DropMissing_anycol(t) == SelectSeq(t, LAMBDA r : ~r.DGS10.na /\ ~r.other.na)
DropMissing(t) == SelectSeq(t, LAMBDA r : r.DGS10.na = FALSE)

(* fred_data0[["DGS10"]] with the index turned into dates *)
SelectDGS10(t) == [i \in 1..Len(t) |-> [Date |-> t[i].DATE, v |-> t[i].DGS10]]

----------------------------------------------------------------------------
(* Calendar of pandas' resample rules: 'W' bins are Monday..Sunday and     *)
(* 'M' bins are calendar months, both labelled by their last day.          *)
(* Dates are day ordinals of 2020 (1 January 2020 is a Wednesday).         *)

Weekday(d) == (d + 1) % 7
WeekEnd(d) == d + (6 - Weekday(d))
MonthEnds == {31, 60, 91, 121, 152, 182, 213, 244, 274, 305, 335, 366}
MonthEnd(d) == MinOf({e \in MonthEnds : e >= d})
PeriodEnd(how, d) == IF how = "W" THEN WeekEnd(d) ELSE MonthEnd(d)

SeqVals(s) == {s[i].v.v : i \in 1..Len(s)}

(* the four aggregation functions of the ohlc dict *)
ohlc_open(x) == x[1].v
\* variant of high: the first value in place of the maximum
ohlc_high_first(x) == x[1].v
ohlc_high(x) == Val(MaxOf(SeqVals(x)))
ohlc_low(x) == Val(MinOf(SeqVals(x)))
\* variant of close: x[0] in place of x[-1]
ohlc_close_first(x) == x[1].v
ohlc_close(x) == x[Len(x)].v

(* data.resample(how).apply(f) for the four f, assembled into df.  Every   *)
(* period between the first and the last row holds a calendar day of the   *)
(* file's span; the span modelled is shorter than a period, so no interior *)
(* period is empty.                                                        *)
\* variant: a bin that also takes the rows of earlier periods
Group_cumulative(data, how, e) == SelectSeq(data, LAMBDA r : PeriodEnd(how, r.Date) <= e)
Group(data, how, e) == SelectSeq(data, LAMBDA r : PeriodEnd(how, r.Date) = e)

resample_plot(data, how) ==
    LET ends == SortedSeq({PeriodEnd(how, data[i].Date) : i \in 1..Len(data)})
    IN  [k \in 1..Len(ends) |->
            LET x == Group(data, how, ends[k])
            IN  [Date |-> ends[k], open |-> ohlc_open(x), high |-> ohlc_high(x),
                 low |-> ohlc_low(x), close |-> ohlc_close(x)]]

(* OHLC[['close']] *)
CloseColumn(df) == [k \in 1..Len(df) |-> [Date |-> df[k].Date, v |-> df[k].close]]

----------------------------------------------------------------------------
(* (X.shift(1) - X).dropna() *)

Shift1(X) == [i \in 1..Len(X) |->
                 [Date |-> X[i].Date, v |-> IF i = 1 THEN NaN ELSE X[i-1].v]]
Sub(a, b) == IF a.na \/ b.na THEN NaN ELSE Val(a.v - b.v)
SeqSub(A, B) == [i \in 1..Len(A) |-> [Date |-> A[i].Date, v |-> Sub(A[i].v, B[i].v)]]
DropNa(X) == SelectSeq(X, LAMBDA r : ~r.v.na)
Diff(X) == DropNa(SeqSub(Shift1(X), X))

----------------------------------------------------------------------------
(* The data pipeline, one action per cell *)

ArIdle == /\ fit_aic = <<>>
          /\ param = 0
          /\ AIC = <<>>
          /\ AR_model = <<>>
          /\ reported = <<>>
          /\ model_order = <<>>

PolyIdle == /\ params = <<>>
            /\ polyroots_arg = <<>>
            /\ roots = <<>>
            /\ period = <<>>

DataIdle == /\ fred_data = <<>>
            /\ fred_data0 = <<>>
            /\ DGS10_daily = <<>>
            /\ OHLC_weekly = <<>>
            /\ OHLC_monthly = <<>>
            /\ DGS10_weekly = <<>>
            /\ DGS10_monthly = <<>>
            /\ diff_DGS10_daily = <<>>
            /\ diff_DGS10_weekly = <<>>
            /\ diff_DGS10_monthly = <<>>

Init == /\ pc = "loaded"
        /\ \E g \in [Days -> DayOptions] : fred_data = ReadCsv(g)
        /\ fred_data0 = <<>>
        /\ DGS10_daily = <<>>
        /\ OHLC_weekly = <<>>
        /\ OHLC_monthly = <<>>
        /\ DGS10_weekly = <<>>
        /\ DGS10_monthly = <<>>
        /\ diff_DGS10_daily = <<>>
        /\ diff_DGS10_weekly = <<>>
        /\ diff_DGS10_monthly = <<>>
        /\ ArIdle
        /\ PolyIdle

FilterMissing ==
    /\ pc = "loaded"
    /\ fred_data0' = DropMissing(fred_data)
    /\ pc' = "filtered"
    /\ UNCHANGED <<fred_data, DGS10_daily, OHLC_weekly, OHLC_monthly, DGS10_weekly,
                   DGS10_monthly, diff_DGS10_daily, diff_DGS10_weekly,
                   diff_DGS10_monthly, arVars, polyVars>>

SelectColumn ==
    /\ pc = "filtered"
    /\ DGS10_daily' = SelectDGS10(fred_data0)
    /\ pc' = "daily"
    /\ UNCHANGED <<fred_data, fred_data0, OHLC_weekly, OHLC_monthly, DGS10_weekly,
                   DGS10_monthly, diff_DGS10_daily, diff_DGS10_weekly,
                   diff_DGS10_monthly, arVars, polyVars>>

ResampleWeekly ==
    /\ pc = "daily"
    /\ OHLC_weekly' = resample_plot(DGS10_daily, "W")
    /\ pc' = "weekly"
    /\ UNCHANGED <<fred_data, fred_data0, DGS10_daily, OHLC_monthly, DGS10_weekly,
                   DGS10_monthly, diff_DGS10_daily, diff_DGS10_weekly,
                   diff_DGS10_monthly, arVars, polyVars>>

ResampleMonthly ==
    /\ pc = "weekly"
    /\ OHLC_monthly' = resample_plot(DGS10_daily, "M")
    /\ pc' = "monthly"
    /\ UNCHANGED <<fred_data, fred_data0, DGS10_daily, OHLC_weekly, DGS10_weekly,
                   DGS10_monthly, diff_DGS10_daily, diff_DGS10_weekly,
                   diff_DGS10_monthly, arVars, polyVars>>

TakeClose ==
    /\ pc = "monthly"
    /\ DGS10_weekly' = CloseColumn(OHLC_weekly)
    /\ DGS10_monthly' = CloseColumn(OHLC_monthly)
    /\ pc' = "closes"
    /\ UNCHANGED <<fred_data, fred_data0, DGS10_daily, OHLC_weekly, OHLC_monthly,
                   diff_DGS10_daily, diff_DGS10_weekly, diff_DGS10_monthly,
                   arVars, polyVars>>

Difference ==
    /\ pc = "closes"
    /\ diff_DGS10_daily' = Diff(DGS10_daily)
    /\ diff_DGS10_weekly' = Diff(DGS10_weekly)
    /\ diff_DGS10_monthly' = Diff(DGS10_monthly)
    /\ pc' = "differenced"
    /\ UNCHANGED <<fred_data, fred_data0, DGS10_daily, OHLC_weekly, OHLC_monthly,
                   DGS10_weekly, DGS10_monthly, arVars, polyVars>>

Next == \/ FilterMissing
        \/ SelectColumn
        \/ ResampleWeekly
        \/ ResampleMonthly
        \/ TakeClose
        \/ Difference

Spec == Init /\ [][Next]_vars

----------------------------------------------------------------------------
(* The AR(p) order grid searches, their report cells and their fit cells   *)

\* the grid search tries the orders 0..MaxOrder (range(0, 25) in the notebook)
MaxOrder == 3
\* a fit that succeeds has an AIC in 1..MaxAIC
MaxAIC == 2

Orders == 0..MaxOrder

(* what AutoReg(series, param).fit().aic does: raise, or return a number *)
Raised == [ok |-> FALSE, aic |-> 0]
FitOutcomes == {Raised} \cup {[ok |-> TRUE, aic |-> a] : a \in 1..MaxAIC}

(* min(AIC) and AIC.index(v) of a Python list *)
PyMin(l) == MinOf({l[i] : i \in 1..Len(l)})
\* variant of index: the last position of v
ListIndex_last(l, v) == MaxOf({i \in 1..Len(l) : l[i] = v})
ListIndex(l, v) == MinOf({i \in 1..Len(l) : l[i] = v})

NoReport == [status |-> "none", aic |-> 0, order |-> 0]
ReportError == [status |-> "error", aic |-> 0, order |-> 0]

(* the orders written into the two "Let's fit this model" cells *)
FitOrder(s) == IF s = "monthly" THEN 0 ELSE 2

InitAR == /\ pc = "differenced"
          /\ DataIdle
          /\ PolyIdle
          /\ fit_aic = <<>>
          /\ param = 0
          /\ AIC = <<>>
          /\ AR_model = <<>>
          /\ reported = [monthly |-> NoReport, weekly |-> NoReport]
          /\ model_order = [monthly |-> -1, weekly |-> -1]

(* p = range(0, 25); AIC = []; AR_model = []; the loop is entered *)
\* variant: the lists of the previous search are kept
StartSearch_keep(s) ==
    /\ pc = (IF s = "monthly" THEN "differenced" ELSE "fitted_monthly")
    /\ param' = 0
    /\ fit_aic' = <<>>
    /\ pc' = "grid_" \o s
    /\ UNCHANGED <<AIC, AR_model, reported, model_order, dataVars, polyVars>>
StartSearch(s) ==
    /\ pc = (IF s = "monthly" THEN "differenced" ELSE "fitted_monthly")
    /\ AIC' = <<>>
    /\ AR_model' = <<>>
    /\ param' = 0
    /\ fit_aic' = <<>>
    /\ pc' = "grid_" \o s
    /\ UNCHANGED <<reported, model_order, dataVars, polyVars>>

(* for param in p: the next order, or the end of the loop *)
NextIteration(s) ==
    IF param < MaxOrder
    THEN param' = param + 1 /\ pc' = pc
    ELSE param' = param /\ pc' = "searched_" \o s

(* except: continue *)
\* variant: break in place of continue
OnException_break(s) ==
    /\ UNCHANGED <<AIC, AR_model, param>>
    /\ pc' = "searched_" \o s
OnException(s) ==
    /\ UNCHANGED <<AIC, AR_model>>
    /\ NextIteration(s)

\* variant: the order is appended before the fit is attempted
GridStep_appendfirst(s) ==
    /\ pc = "grid_" \o s
    /\ \E r \in FitOutcomes :
          /\ fit_aic' = Append(fit_aic, r)
          /\ AR_model' = Append(AR_model, <<param>>)
          /\ AIC' = IF r.ok THEN Append(AIC, r.aic) ELSE AIC
          /\ NextIteration(s)
    /\ UNCHANGED <<reported, model_order, dataVars, polyVars>>

(* one iteration of the loop body; fit_aic logs what the fit of each order did *)
GridStep(s) ==
    /\ pc = "grid_" \o s
    /\ \E r \in FitOutcomes :
          /\ fit_aic' = Append(fit_aic, r)
          /\ IF r.ok
             THEN /\ AIC' = Append(AIC, r.aic)
                  /\ AR_model' = Append(AR_model, <<param>>)
                  /\ NextIteration(s)
             ELSE OnException(s)
    /\ UNCHANGED <<reported, model_order, dataVars, polyVars>>

(* print(... min(AIC), AR_model[AIC.index(min(AIC))][0]) *)
\* variant: an empty list is reported as order 0 (a default in place of the error)
Report_default(s) ==
    /\ pc = "searched_" \o s
    /\ reported' = [reported EXCEPT ![s] =
                       IF AIC = <<>> THEN [status |-> "ok", aic |-> 0, order |-> 0]
                       ELSE [status |-> "ok", aic |-> PyMin(AIC),
                             order |-> AR_model[ListIndex(AIC, PyMin(AIC))][1]]]
    /\ pc' = "reported_" \o s
    /\ UNCHANGED <<fit_aic, param, AIC, AR_model, model_order, dataVars, polyVars>>
Report(s) ==
    /\ pc = "searched_" \o s
    /\ reported' = [reported EXCEPT ![s] =
                       IF AIC = <<>> THEN ReportError
                       ELSE [status |-> "ok", aic |-> PyMin(AIC),
                             order |-> AR_model[ListIndex(AIC, PyMin(AIC))][1]]]
    /\ pc' = "reported_" \o s
    /\ UNCHANGED <<fit_aic, param, AIC, AR_model, model_order, dataVars, polyVars>>

(* model = AutoReg(series, <order>, old_names=False); results = model.fit() *)
FitBest(s) ==
    /\ pc = "reported_" \o s
    /\ model_order' = [model_order EXCEPT ![s] = FitOrder(s)]
    /\ pc' = "fitted_" \o s
    /\ UNCHANGED <<fit_aic, param, AIC, AR_model, reported, dataVars, polyVars>>

NextAR == \/ StartSearch("monthly")
          \/ GridStep("monthly")
          \/ Report("monthly")
          \/ FitBest("monthly")
          \/ StartSearch("weekly")
          \/ GridStep("weekly")
          \/ Report("weekly")
          \/ FitBest("weekly")

SpecAR == InitAR /\ [][NextAR]_vars

----------------------------------------------------------------------------
(* Characteristic polynomial and cycle length of the fitted weekly AR(2)   *)
(* model.  Coefficients are integers in units of 0.01.                     *)

\* AR coefficients of the fitted model are drawn from -MaxCoef..MaxCoef
MaxCoef == 10

\* the estimates stated in the notebook: phi_1 = -0.1, phi_2 = 0.04
PhiHat1 == -10
PhiHat2 == 4

Abs(x) == IF x < 0 THEN -x ELSE x

(* phi(z) = 1 - phi_1 z - phi_2 z^2, coefficients in ascending powers of z *)
CharPoly(phi1, phi2) == <<100, -phi1, -phi2>>

(* the tuple written in the polyroots cell: (1, -0.1, 0.04) *)
PolyrootsLiteral == <<100, -10, 4>>

(* np.polynomial.polynomial.polyroots of c[1] + c[2] z + c[3] z^2: the two *)
(* roots (a + sqrt(d)) / den and (a - sqrt(d)) / den, kept in exact form   *)
\* variant: discriminant with the wrong sign
Polyroots_signslip(c) == [a |-> -c[2], d |-> c[2] * c[2] + 4 * c[3] * c[1], den |-> 2 * c[3]]
Polyroots(c) == [a |-> -c[2], d |-> c[2] * c[2] - 4 * c[3] * c[1], den |-> 2 * c[3]]

(* the roots are a conjugate pair of non-real numbers *)
IsComplex(r) == r.den # 0 /\ r.d < 0

(* sqrt(d) > k and sqrt(d) < k for d >= 0 and an integer k *)
SqrtGT(d, k) == k < 0 \/ d > k * k
SqrtLT(d, k) == k > 0 /\ d < k * k

(* both roots have modulus greater than 1 *)
OutsideUnitCircle(r) ==
    /\ r.den # 0
    /\ IF r.d < 0
       THEN r.a * r.a - r.d > r.den * r.den
       ELSE /\ SqrtGT(r.d, Abs(r.den) - r.a) \/ SqrtLT(r.d, -Abs(r.den) - r.a)
            /\ SqrtLT(r.d, r.a - Abs(r.den)) \/ SqrtGT(r.d, r.a + Abs(r.den))

(* results.params[i], Python indexing: params = (const, phi_1, phi_2) *)
PyItem(l, i) == l[i + 1]

(* np.sqrt(x): sqrt(sq), or nan for a negative argument *)
NpSqrt(x) == [nan |-> x < 0, sq |-> x]

(* abs(p1) / (2 * r) for r = sqrt(r.sq): the number num / sqrt(den2), with *)
(* numpy's float division by zero (inf, or nan for 0/0)                    *)
Ratio(p1, r) == [nan |-> r.nan \/ (r.sq = 0 /\ p1 = 0),
                 inf |-> ~r.nan /\ r.sq = 0 /\ p1 # 0,
                 num |-> Abs(p1), den2 |-> 4 * r.sq]

(* the argument lies in [-1, 1] *)
InArccosDomain(a) == ~a.nan /\ ~a.inf /\ a.num * a.num <= a.den2

(* np.arccos(a): nan outside [-1, 1], else an angle in [0, pi]; sign is    *)
(* the sign of the angle (0 exactly when the argument is 1)                *)
NpArccos(a) == IF InArccosDomain(a)
               THEN [nan |-> FALSE, sign |-> IF a.num * a.num = a.den2 THEN 0 ELSE 1]
               ELSE [nan |-> TRUE, sign |-> 0]

(* f = twopif / (8 * np.arctan(1)): division by 2 pi keeps nan and sign *)
Frequency(twopif) == twopif

(* period = -1 / f: nan stays nan, f = 0 gives -inf, else the sign flips *)
PeriodOf(f) == IF f.nan THEN [nan |-> TRUE, inf |-> FALSE, sign |-> 0]
               ELSE IF f.sign = 0 THEN [nan |-> FALSE, inf |-> TRUE, sign |-> -1]
               ELSE [nan |-> FALSE, inf |-> FALSE, sign |-> -f.sign]

NoRoots == [a |-> 0, d |-> 0, den |-> 0]
NoPeriod == [sqrt_arg |-> 0, arccos_arg |-> Ratio(0, NpSqrt(0)),
             value |-> [nan |-> TRUE, inf |-> FALSE, sign |-> 0]]

Coefs == (0 - MaxCoef)..MaxCoef

(* the weekly AR(2) model has been fitted: results.params holds its estimates *)
InitRoots == /\ pc = "fitted_weekly"
             /\ DataIdle
             /\ ArIdle
             /\ \E phi1, phi2 \in Coefs : params = <<0, phi1, phi2>>
             /\ polyroots_arg = <<>>
             /\ roots = NoRoots
             /\ period = NoPeriod

(* np.polynomial.polynomial.polyroots((1,-0.1,0.04)) *)
PolyrootsCell ==
    /\ pc = "fitted_weekly"
    /\ polyroots_arg' = PolyrootsLiteral
    /\ roots' = Polyroots(PolyrootsLiteral)
    /\ pc' = "roots"
    /\ UNCHANGED <<params, period, dataVars, arVars>>

(* twopif = np.arccos(abs(params[1]) / (2*np.sqrt(params[2]))); f; period *)
PeriodCell ==
    /\ pc = "roots"
    /\ LET arg == Ratio(PyItem(params, 1), NpSqrt(PyItem(params, 2)))
           twopif == NpArccos(arg)
           f == Frequency(twopif)
       IN  period' = [sqrt_arg |-> PyItem(params, 2), arccos_arg |-> arg,
                      value |-> PeriodOf(f)]
    /\ pc' = "period"
    /\ UNCHANGED <<params, polyroots_arg, roots, dataVars, arVars>>

NextRoots == \/ PolyrootsCell
             \/ PeriodCell

SpecRoots == InitRoots /\ [][NextRoots]_vars

----------------------------------------------------------------------------
(* Claims about the data pipeline (specification Spec) *)

AfterFilter == pc # "loaded"
AfterWeekly == pc \in {"weekly", "monthly", "closes", "differenced"}
AfterMonthly == pc \in {"monthly", "closes", "differenced"}
AfterClose == pc \in {"closes", "differenced"}

\* indexes of the daily observations whose period (week or month) ends on e
ObsOf(how, e) == {i \in 1..Len(DGS10_daily) : PeriodEnd(how, DGS10_daily[i].Date) = e}
FirstObs(I) == CHOOSE i \in I : \A j \in I : DGS10_daily[i].Date <= DGS10_daily[j].Date
LastObs(I) == CHOOSE i \in I : \A j \in I : DGS10_daily[i].Date >= DGS10_daily[j].Date

BarIsOHLC(how, bar) ==
    LET I == ObsOf(how, bar.Date)
    IN  I # {} =>
          /\ bar.open = DGS10_daily[FirstObs(I)].v
          /\ bar.close = DGS10_daily[LastObs(I)].v
          /\ \E i \in I : bar.high = DGS10_daily[i].v
          /\ \E i \in I : bar.low = DGS10_daily[i].v
          /\ \A i \in I : /\ DGS10_daily[i].v.v <= bar.high.v
                          /\ DGS10_daily[i].v.v >= bar.low.v

ClosesOf(series, df) ==
    /\ Len(series) = Len(df)
    /\ \A k \in 1..Len(df) : /\ series[k].v = df[k].close
                             /\ series[k].Date = df[k].Date

\* C1: every bar of resample_plot has open = first, high = max, low = min and
\* close = last observation of its period, and DGS10_weekly / DGS10_monthly are
\* the close column of the bars, one value per bar in the same order.
C1_BarsAreOHLC ==
    /\ AfterWeekly => \A k \in 1..Len(OHLC_weekly) : BarIsOHLC("W", OHLC_weekly[k])
    /\ AfterMonthly => \A k \in 1..Len(OHLC_monthly) : BarIsOHLC("M", OHLC_monthly[k])
    /\ AfterClose => /\ ClosesOf(DGS10_weekly, OHLC_weekly)
                     /\ ClosesOf(DGS10_monthly, OHLC_monthly)

\* a week with three observations whose first, last and extreme values differ
C1_Witness ==
    /\ AfterClose
    /\ \E k \in 1..Len(OHLC_weekly) :
          /\ Cardinality(ObsOf("W", OHLC_weekly[k].Date)) >= 3
          /\ OHLC_weekly[k].open # OHLC_weekly[k].close
          /\ OHLC_weekly[k].high # OHLC_weekly[k].low
          /\ DGS10_weekly[k].v = OHLC_weekly[k].close
    /\ Len(OHLC_monthly) >= 2

\* C5 (as claimed): each differenced series has length n - 1 and its value at
\* each time t after the first is X_t - X_{t-1}.
IsFirstDifference(Y, X) ==
    Len(X) >= 2 =>
      /\ Len(Y) = Len(X) - 1
      /\ \A t \in 2..Len(X) : /\ Y[t-1].Date = X[t].Date
                              /\ Y[t-1].v = Val(X[t].v.v - X[t-1].v.v)

C5_Claim ==
    pc = "differenced" =>
      /\ IsFirstDifference(diff_DGS10_daily, DGS10_daily)
      /\ IsFirstDifference(diff_DGS10_weekly, DGS10_weekly)
      /\ IsFirstDifference(diff_DGS10_monthly, DGS10_monthly)

\* C6: the missing-value filter keeps exactly the rows whose DGS10 is present,
\* unchanged and in their original order, whatever the other columns hold.
C6_FilterKeepsDGS10Rows ==
    AfterFilter =>
      /\ \A i \in 1..Len(fred_data0) :
            /\ ~fred_data0[i].DGS10.na
            /\ \E j \in 1..Len(fred_data) : fred_data[j] = fred_data0[i]
      /\ \A j \in 1..Len(fred_data) :
            ~fred_data[j].DGS10.na =>
               \E i \in 1..Len(fred_data0) : fred_data0[i] = fred_data[j]
      /\ Len(fred_data0) = Cardinality({j \in 1..Len(fred_data) : ~fred_data[j].DGS10.na})
      /\ \A i1, i2 \in 1..Len(fred_data0) :
            i1 < i2 => \E j1, j2 \in 1..Len(fred_data) :
                          /\ j1 < j2
                          /\ fred_data[j1] = fred_data0[i1]
                          /\ fred_data[j2] = fred_data0[i2]

\* a table with a dropped row between kept ones and a kept row missing another column
C6_Witness ==
    /\ pc = "filtered"
    /\ Len(fred_data0) >= 2
    /\ \E j \in 2..(Len(fred_data) - 1) : fred_data[j].DGS10.na
    /\ \E i \in 1..Len(fred_data0) : fred_data0[i].other.na

\* the calendar period a bar labelled e stands for
InPeriod(how, d, e) ==
    IF how = "W"
    THEN Weekday(e) = 6 /\ e - 6 <= d /\ d <= e
    ELSE e \in MonthEnds /\ d <= e /\ ~\E e2 \in MonthEnds : d <= e2 /\ e2 < e

BarsPartition(how, df) ==
    /\ \A i \in 1..Len(DGS10_daily) :
          Cardinality({k \in 1..Len(df) : InPeriod(how, DGS10_daily[i].Date, df[k].Date)}) = 1
    /\ \A k \in 1..Len(df) :
          LET inside == {DGS10_daily[i].v : i \in {j \in 1..Len(DGS10_daily) :
                                 InPeriod(how, DGS10_daily[j].Date, df[k].Date)}}
          IN  /\ df[k].open \in inside
              /\ df[k].high \in inside
              /\ df[k].low \in inside
              /\ df[k].close \in inside
    /\ \A k1, k2 \in 1..Len(df) : k1 < k2 => df[k1].Date < df[k2].Date

\* C10: every daily observation lies in the period of exactly one weekly and one
\* monthly bar, a bar's values come only from observations inside its period,
\* and the bars are in increasing chronological order.
C10_ResamplePartitions ==
    /\ AfterWeekly => BarsPartition("W", OHLC_weekly)
    /\ AfterMonthly => BarsPartition("M", OHLC_monthly)

\* two weeks and two months, the later ones holding values the earlier lack
C10_Witness ==
    /\ AfterMonthly
    /\ Len(OHLC_weekly) = 2
    /\ Len(OHLC_monthly) = 2
    /\ Len(DGS10_daily) >= 3
    /\ OHLC_weekly[1].high # OHLC_weekly[2].open
    /\ OHLC_monthly[1].close # OHLC_monthly[2].open

----------------------------------------------------------------------------
(* Claims about the grid searches (specification SpecAR) *)

Series == {"monthly", "weekly"}

\* the search of series s is the latest one run and its report cell has run
JustReported(s) == pc \in {"reported_" \o s, "fitted_" \o s}

\* the log entry of order o in the search just run
FitOf(o) == fit_aic[o + 1]

\* C2: the order reported as best was fitted successfully, no successfully
\* fitted order of 0..MaxOrder has a smaller AIC, and among the orders that
\* attain the minimum it is the lowest.
C2_ReportedOrderIsArgmin ==
    \A s \in Series :
      (JustReported(s) /\ reported[s].status = "ok") =>
         LET o == reported[s].order
         IN  /\ o \in Orders
             /\ FitOf(o).ok
             /\ reported[s].aic = FitOf(o).aic
             /\ \A o2 \in Orders : FitOf(o2).ok => FitOf(o).aic <= FitOf(o2).aic
             /\ \A o2 \in Orders :
                   (FitOf(o2).ok /\ FitOf(o2).aic = FitOf(o).aic) => o <= o2

\* a weekly search with a failed order, a tie for the minimum and a larger AIC first
C2_Witness ==
    /\ pc = "reported_weekly"
    /\ reported["weekly"].status = "ok"
    /\ reported["weekly"].order >= 1
    /\ \E o \in Orders : ~FitOf(o).ok
    /\ \E o \in Orders : /\ o > reported["weekly"].order
                         /\ FitOf(o).ok
                         /\ FitOf(o).aic = reported["weekly"].aic

\* C3 (as claimed): the model fitted after a grid search has the order the
\* search just reported as the minimum-AIC order.
C3_Claim ==
    \A s \in Series :
      (pc = "fitted_" \o s /\ reported[s].status = "ok") =>
         model_order[s] = reported[s].order

\* a step of the loop body in which the fit of the current order raised
FitRaisedInStep ==
    /\ pc \in {"grid_monthly", "grid_weekly"}
    /\ Len(fit_aic') = Len(fit_aic) + 1
    /\ ~fit_aic'[Len(fit_aic')].ok

\* C4: when the fit of an order raises, nothing is appended to AIC or AR_model,
\* the earlier entries are unchanged, and the loop goes on to the next order;
\* the loop ends only when every order up to MaxOrder has been tried.
C4_ExceptionIgnored ==
    [][ /\ FitRaisedInStep =>
             /\ AIC' = AIC
             /\ AR_model' = AR_model
             /\ param < MaxOrder => (param' = param + 1 /\ pc' = pc)
        /\ pc' \in {"searched_monthly", "searched_weekly"} =>
             (param' = MaxOrder /\ Len(fit_aic') = MaxOrder + 1) ]_vars

\* a finished search in which a failed order lies between two successful ones
C4_Witness ==
    /\ pc = "searched_weekly"
    /\ \E i, j, k \in 1..Len(fit_aic) :
          /\ i < j /\ j < k
          /\ fit_aic[i].ok /\ ~fit_aic[j].ok /\ fit_aic[k].ok
    /\ Len(AIC) = Cardinality({i \in 1..Len(fit_aic) : fit_aic[i].ok})
    /\ Len(fit_aic) = MaxOrder + 1

----------------------------------------------------------------------------
(* Claims about the root and cycle-length cells (specification SpecRoots) *)

AfterRoots == pc \in {"roots", "period"}
StatedEstimates == PyItem(params, 1) = PhiHat1 /\ PyItem(params, 2) = PhiHat2
FittedCharRoots == Polyroots(CharPoly(PyItem(params, 1), PyItem(params, 2)))

C8_Claim ==
    (pc = "period" /\ IsComplex(FittedCharRoots)) =>
       /\ period.sqrt_arg >= 0
       /\ InArccosDomain(period.arccos_arg)
       /\ ~period.value.nan
       /\ ~period.value.inf
       /\ period.value.sign = 1

\* C9 (as claimed): the tuple handed to the root finder is (1, -phi_1, -phi_2)
\* for the stated estimates.
C9_Claim ==
    AfterRoots => polyroots_arg = CharPoly(PhiHat1, PhiHat2)

\* a grid search has been started and is the latest one run
InSearch == \E s \in Series :
               pc \in {"grid_" \o s, "searched_" \o s, "reported_" \o s, "fitted_" \o s}

\* C11: after every iteration AIC and AR_model have the same length, the
\* recorded orders are strictly increasing, and AIC[i] is the AIC of the fit of
\* order AR_model[i][0]; so the order looked up at the index of the minimum
\* AIC is the order whose fit produced that AIC.
C11_ListsAligned ==
    InSearch =>
      /\ Len(AIC) = Len(AR_model)
      /\ \A i \in 1..Len(AR_model) : Len(AR_model[i]) = 1
      /\ \A i, j \in 1..Len(AR_model) : i < j => AR_model[i][1] < AR_model[j][1]
      /\ \A i \in 1..Len(AR_model) :
            /\ AR_model[i][1] + 1 \in 1..Len(fit_aic)
            /\ FitOf(AR_model[i][1]).ok
            /\ i <= Len(AIC) => AIC[i] = FitOf(AR_model[i][1]).aic
      /\ \A s \in Series :
            (JustReported(s) /\ reported[s].status = "ok") =>
               \E i \in 1..Len(AIC) : /\ AIC[i] = reported[s].aic
                                      /\ AR_model[i][1] = reported[s].order
                                      /\ FitOf(reported[s].order).aic = reported[s].aic

\* mid-search: two orders recorded around a failed one, with different AICs
C11_Witness ==
    /\ pc = "grid_weekly"
    /\ Len(AIC) = 2
    /\ AR_model[2][1] - AR_model[1][1] >= 2
    /\ AIC[1] # AIC[2]

BarOrdered(bar) ==
    /\ bar.low.v <= bar.open.v /\ bar.open.v <= bar.high.v
    /\ bar.low.v <= bar.close.v /\ bar.close.v <= bar.high.v
    /\ ~bar.open.na /\ ~bar.high.na /\ ~bar.low.na /\ ~bar.close.na

BarFlatIfSingle(how, bar) ==
    Cardinality(ObsOf(how, bar.Date)) = 1 =>
       /\ bar.open = bar.high
       /\ bar.high = bar.low
       /\ bar.low = bar.close

\* C12: every bar has low <= open <= high and low <= close <= high, and a
\* period with exactly one observation yields open = high = low = close.
C12_BarsOrdered ==
    /\ AfterWeekly => \A k \in 1..Len(OHLC_weekly) :
                         /\ BarOrdered(OHLC_weekly[k])
                         /\ BarFlatIfSingle("W", OHLC_weekly[k])
    /\ AfterMonthly => \A k \in 1..Len(OHLC_monthly) :
                          /\ BarOrdered(OHLC_monthly[k])
                          /\ BarFlatIfSingle("M", OHLC_monthly[k])

\* a week whose high lies above its open and close, next to a one-observation week
C12_Witness ==
    /\ AfterMonthly
    /\ \E k \in 1..Len(OHLC_weekly) :
          /\ OHLC_weekly[k].open.v < OHLC_weekly[k].high.v
          /\ OHLC_weekly[k].close.v < OHLC_weekly[k].high.v
    /\ \E k \in 1..Len(OHLC_weekly) :
          Cardinality(ObsOf("W", OHLC_weekly[k].Date)) = 1
    /\ \E k \in 1..Len(OHLC_monthly) :
          Cardinality(ObsOf("M", OHLC_monthly[k].Date)) = 1

\* the successful orders of the search just run, and the best of them
OkOrders == {o \in Orders : o + 1 <= Len(fit_aic) /\ FitOf(o).ok}
BestOrders == {o \in OkOrders : \A o2 \in OkOrders : FitOf(o).aic <= FitOf(o2).aic}

\* C13: each grid search starts from empty lists, and what the weekly report
\* cell prints is determined by the weekly fits alone: the best weekly order
\* with its AIC, or an error when every weekly fit failed, whatever the monthly
\* search recorded.
C13_WeeklyReportFromWeeklyFits ==
    /\ \A s \in Series :
          (pc = "grid_" \o s /\ fit_aic = <<>>) => (AIC = <<>> /\ AR_model = <<>>)
    /\ JustReported("weekly") =>
          IF OkOrders = {}
          THEN reported["weekly"] = ReportError
          ELSE reported["weekly"] =
                  [status |-> "ok", aic |-> FitOf(MinOf(BestOrders)).aic,
                   order |-> MinOf(BestOrders)]

\* the monthly search reported an order, then every weekly fit failed
C13_Witness ==
    /\ pc = "reported_weekly"
    /\ reported["monthly"].status = "ok"
    /\ \A o \in Orders : ~FitOf(o).ok
    /\ reported["weekly"].status = "error"

\* every fit attempted so far in the search just run has raised
AllRaised == \A i \in 1..Len(fit_aic) : ~fit_aic[i].ok

\* C14: when the fit raises for every order, the loop still runs all
\* MaxOrder + 1 iterations and ends with AIC and AR_model empty, and the report
\* cell that follows raises (min of an empty list) instead of reporting an order.
C14_AllFitsFail ==
    \A s \in Series :
      /\ (pc = "grid_" \o s /\ AllRaised) =>
            /\ AIC = <<>> /\ AR_model = <<>>
            /\ Len(fit_aic) = param /\ param <= MaxOrder
      /\ (pc \in {"searched_" \o s, "reported_" \o s, "fitted_" \o s} /\ AllRaised) =>
            /\ Len(fit_aic) = MaxOrder + 1
            /\ AIC = <<>> /\ AR_model = <<>>
            /\ JustReported(s) => reported[s] = ReportError

\* the monthly report cell has run after a search in which every order failed
C14_Witness ==
    /\ pc = "reported_monthly"
    /\ Len(fit_aic) = MaxOrder + 1
    /\ AllRaised
    /\ reported["monthly"].status = "error"

====
